---- MODULE Spec2Model ----
(***************************************************************************)
(* State-machine model of the FastAPI auth service (src/app/api/auth.py):  *)
(* the users and blacklisted_tokens tables, the JWT helpers and the six    *)
(* /auth routes.  Every database statement (query or commit) is one atomic *)
(* step; a handler that issues two statements is two steps, so requests of *)
(* different clients interleave between them.  `last` is the exchange most *)
(* recently begun or completed (its response is NoResp while the request   *)
(* is in flight); `wallet` holds the tokens clients have received.         *)
(* Rows carry the columns the handlers read or write; the surrogate id     *)
(* columns and users.updated_at are not represented (table order stands in *)
(* for id order).                                                          *)
(***************************************************************************)
EXTENDS Integers, FiniteSets, Sequences, TLC

\* ---------------------------------------------------------------- bounds
\* Requests sent in a behaviour, and times the clock advances.
MaxRequests == 3
MaxTicks == 1
MaxOriginsLen == 3

\* ------------------------------------------------------- program constants
ACCESS_TOKEN_EXPIRE_MINUTES == 30
REFRESH_TOKEN_EXPIRE_DAYS == 7

\* ------------------------------------------------------------ input sets
\* Two clients, so that two handlers can be in flight at once.
Clients == {"c1", "c2"}
Emails == {"a@x", "b@x"}
\* Accounts register with pw1; a login sends pw1 or the wrong password pw2.
RegisterPasswords == {"pw1"}
Passwords == {"pw1", "pw2"}
Names == {"n"}
NoSub == "<none>"

\* The clock advances to just past an access lifetime or just past a refresh
\* lifetime (seconds).
ClockSteps == {ACCESS_TOKEN_EXPIRE_MINUTES * 60 + 1, REFRESH_TOKEN_EXPIRE_DAYS * 86400 + 1}

VARIABLES users, blacklist, now, nticks, nreq, pc, req, token_data, wallet, last,
          opened, closed, db, BACKEND_CORS_ORIGINS, user_middleware

vars == <<users, blacklist, now, nticks, nreq, pc, req, token_data, wallet, last,
          opened, closed, db, BACKEND_CORS_ORIGINS, user_middleware>>

\* ------------------------------------------------------------------ tokens
\* A token string is determined by its claims and its signature: jwt.encode is
\* deterministic, so two tokens with equal claims are the same string.
NoToken == [sub |-> NoSub, type |-> "none", iat |-> 0, exp |-> 0, sig |-> "absent"]
Garbage == [sub |-> NoSub, type |-> "none", iat |-> 0, exp |-> 0, sig |-> "malformed"]

create_access_token(data, expires_delta, t) ==
    [sub  |-> data.sub,
     type |-> "access",
     iat  |-> t,
     exp  |-> IF expires_delta # 0 THEN t + expires_delta
                                   ELSE t + ACCESS_TOKEN_EXPIRE_MINUTES * 60,
     sig  |-> "ok"]

create_refresh_token(data, t) ==
    [sub  |-> data.sub,
     type |-> "refresh",
     iat  |-> t,
     exp  |-> t + REFRESH_TOKEN_EXPIRE_DAYS * 86400,
     sig  |-> "ok"]

\* Tokens a client can present that no response of this run carried: a
\* malformed string, tokens signed with another key, a token signed with the
\* service's key that carries no subject, and an access token signed with the
\* service's key for an account the users table does not hold.
Forged ==
    {Garbage,
     [sub |-> "z@x", type |-> "access", iat |-> 0,
      exp |-> REFRESH_TOKEN_EXPIRE_DAYS * 86400 * 4, sig |-> "ok"],
     [sub |-> "a@x", type |-> "access", iat |-> 0,
      exp |-> REFRESH_TOKEN_EXPIRE_DAYS * 86400 * 4, sig |-> "bad"],
     [sub |-> "a@x", type |-> "refresh", iat |-> 0,
      exp |-> REFRESH_TOKEN_EXPIRE_DAYS * 86400 * 4, sig |-> "bad"],
     [sub |-> NoSub, type |-> "access", iat |-> 0,
      exp |-> REFRESH_TOKEN_EXPIRE_DAYS * 86400 * 4, sig |-> "ok"]}

\* Variant: jwt.decode with verify_exp switched off.
JwtDecodeError_NoExpiry(token, t) ==
    IF token.sig = "malformed" THEN "Not enough segments"
    ELSE IF token.sig # "ok" THEN "Signature verification failed."
    ELSE ""

\* jwt.decode: the reason it raises JWTError, or "" when the token decodes.
\* The signature is checked before the exp claim; a token is expired when
\* exp < now.
JwtDecodeError(token, t) ==
    IF token.sig = "malformed" THEN "Not enough segments"
    ELSE IF token.sig # "ok" THEN "Signature verification failed."
    ELSE IF token.exp < t THEN "Signature has expired."
    ELSE ""

AuthError(message) ==
    [ok |-> FALSE, message |-> message, status_code |-> 401,
     email |-> NoSub, token_type |-> "none"]

\* Variant: verify_token without the comparison of the type claim.
verify_token_AnyType(token, expected_type, t) ==
    IF JwtDecodeError(token, t) # ""
      THEN AuthError("Token validation failed: " \o JwtDecodeError(token, t))
    ELSE IF token.sub = NoSub
      THEN AuthError("Token missing subject")
    ELSE [ok |-> TRUE, message |-> "", status_code |-> 200,
          email |-> token.sub, token_type |-> token.type]

verify_token(token, expected_type, t) ==
    IF JwtDecodeError(token, t) # ""
      THEN AuthError("Token validation failed: " \o JwtDecodeError(token, t))
    ELSE IF token.type # expected_type
      THEN AuthError("Invalid token type. Expected " \o expected_type
                     \o ", got " \o token.type)
    ELSE IF token.sub = NoSub
      THEN AuthError("Token missing subject")
    ELSE [ok |-> TRUE, message |-> "", status_code |-> 200,
          email |-> token.sub, token_type |-> token.type]

\* ------------------------------------------------------------------ tables
get_password_hash(password) == [scheme |-> "bcrypt", of |-> password]

verify_password(plain_password, hashed_password) ==
    hashed_password = get_password_hash(plain_password)

\* Variant: users.is_active defaulting to false.
User_Inactive(email, name, hashed_password, t) ==
    [email |-> email, name |-> name, hashed_password |-> hashed_password,
     is_active |-> FALSE, created_at |-> t]

User(email, name, hashed_password, t) ==
    [email |-> email, name |-> name, hashed_password |-> hashed_password,
     is_active |-> TRUE, created_at |-> t]

BlacklistedToken(token, t) == [token |-> token, blacklisted_at |-> t]

NoUser == [email |-> NoSub, name |-> "", is_active |-> FALSE, created_at |-> 0]

\* db.query(User).filter(User.email == email): the matching rows, in table order.
UsersByEmail(table, email) == SelectSeq(table, LAMBDA u : u.email = email)

\* db.query(BlacklistedToken).filter(BlacklistedToken.token == token)
BlacklistedRows(table, token) == SelectSeq(table, LAMBDA b : b.token = token)

\* Variant: users.email without its unique index.
UsersUniqueViolation_NoIndex(table, email) == FALSE

\* UNIQUE (email) on users / UNIQUE (token) on blacklisted_tokens: whether the
\* INSERT raises IntegrityError at commit.
UsersUniqueViolation(table, email) == \E i \in DOMAIN table : table[i].email = email

\* Variant: blacklisted_tokens.token without its unique index.
BlacklistUniqueViolation_NoIndex(table, token) == FALSE

BlacklistUniqueViolation(table, token) == \E i \in DOMAIN table : table[i].token = token

\* --------------------------------------------------------------- responses
NoBody == [access_token |-> NoToken, refresh_token |-> NoToken,
           token_type |-> "", expires_in |-> 0, user |-> NoUser, message |-> ""]

NoResp == [status |-> 0, detail |-> "", www_authenticate |-> FALSE, body |-> NoBody]

HTTPException(status_code, detail, www) ==
    [status |-> status_code, detail |-> detail, www_authenticate |-> www,
     body |-> NoBody]

TokenPair(status_code, access_token, refresh_token) ==
    [status |-> status_code, detail |-> "", www_authenticate |-> FALSE,
     body |-> [NoBody EXCEPT !.access_token = access_token,
                             !.refresh_token = refresh_token,
                             !.token_type = "bearer",
                             !.expires_in = ACCESS_TOKEN_EXPIRE_MINUTES * 60]]

Message(text) ==
    [status |-> 200, detail |-> "", www_authenticate |-> FALSE,
     body |-> [NoBody EXCEPT !.message = text]]

UserResponse(user) ==
    [status |-> 200, detail |-> "", www_authenticate |-> FALSE,
     body |-> [NoBody EXCEPT !.user = [email |-> user.email, name |-> user.name,
                                       is_active |-> user.is_active,
                                       created_at |-> user.created_at]]]

general_exception_handler ==
    [status |-> 500, detail |-> "Internal server error",
     www_authenticate |-> FALSE, body |-> NoBody]

\* ---------------------------------------------------------------- requests
NoReq == [op |-> "none", email |-> NoSub, name |-> "", password |-> "",
          token |-> NoToken]

\* The tokens a client can present: those received in a response and the
\* forged ones.
KnownTokens == wallet \cup Forged

\* ---------------------------------------------------------------- settings
\* A str is the sequence of its characters.
Chars == {"a", "b", ",", " "}

Strings == UNION {[1..n -> Chars] : n \in 0..MaxOriginsLen}

\* str.split(sep): the pieces between the occurrences of sep, empty ones
\* included; the whole string when sep does not occur.
RECURSIVE split(_, _)
split(s, sep) ==
    IF \A i \in DOMAIN s : s[i] # sep THEN <<s>>
    ELSE LET i == CHOOSE k \in DOMAIN s :
                    s[k] = sep /\ \A j \in 1..(k - 1) : s[j] # sep IN
         <<SubSeq(s, 1, i - 1)>> \o split(SubSeq(s, i + 1, Len(s)), sep)

\* str.strip(): without its leading and trailing whitespace.
RECURSIVE strip(_)
strip(s) ==
    IF s = <<>> THEN s
    ELSE IF Head(s) = " " THEN strip(Tail(s))
    ELSE IF s[Len(s)] = " " THEN strip(SubSeq(s, 1, Len(s) - 1))
    ELSE s

\* Settings.CORS_ORIGINS_LIST
CORS_ORIGINS_LIST(origins) ==
    [i \in DOMAIN split(origins, ",") |-> strip(split(origins, ",")[i])]

\* [str(origin) for origin in settings.BACKEND_CORS_ORIGINS]: the setting is
\* a str, and iterating a str yields its characters.
allow_origins(origins) == [i \in DOMAIN origins |-> <<origins[i]>>]

CORSMiddleware(origins) ==
    [cls |-> "CORSMiddleware", allow_origins |-> origins,
     allow_credentials |-> TRUE]

\* ---------------------------------------------------------------- sessions
\* opened counts the sessions SessionLocal() made, closed the close() calls;
\* db[c] tells whether the handler of client c holds a session.
SessionLocal(made) == made + 1

\* A handler's outcome is an exception thrown into get_db at its yield.
Raised(s) == s.status >= 400

\* Variant: get_db without try/finally, close() written after the yield.
get_db_NoFinally(released, s) == IF Raised(s) THEN released ELSE released + 1

\* The end of get_db: db.close() in the finally clause, whatever the handler
\* returned or raised.
get_db(released, s) == released + 1

Init ==
    /\ users = <<>>
    /\ blacklist = <<>>
    /\ now = 0
    /\ nticks = 0
    /\ nreq = 0
    /\ pc = [c \in Clients |-> "idle"]
    /\ req = [c \in Clients |-> NoReq]
    /\ token_data = [c \in Clients |-> NoSub]
    /\ wallet = {}
    /\ last = [req |-> NoReq, resp |-> NoResp, at |-> "none"]
    /\ opened = 0
    /\ closed = 0
    /\ db = [c \in Clients |-> FALSE]
    /\ BACKEND_CORS_ORIGINS = <<>>
    /\ user_middleware = <<CORSMiddleware(allow_origins(BACKEND_CORS_ORIGINS))>>

\* A client sends a request.
Begin(c) ==
    /\ pc[c] = "idle"
    /\ nreq < MaxRequests
    /\ nreq' = nreq + 1

\* The handler of client c's request r returns response s: the client keeps
\* the tokens it carries.  last.at is the statement the handler returned from.
Reply(c, r, s) ==
    /\ last' = [req |-> r, resp |-> s, at |-> IF pc[c] = "idle" THEN r.op ELSE pc[c]]
    /\ wallet' = wallet \cup ({s.body.access_token, s.body.refresh_token} \ {NoToken})
    /\ pc' = [pc EXCEPT ![c] = "idle"]
    /\ req' = [req EXCEPT ![c] = NoReq]
    /\ token_data' = [token_data EXCEPT ![c] = NoSub]
    /\ opened' = IF db[c] THEN opened ELSE SessionLocal(opened)
    /\ closed' = get_db(closed, s)
    /\ db' = [db EXCEPT ![c] = FALSE]
    /\ UNCHANGED <<BACKEND_CORS_ORIGINS, user_middleware>>

\* The handler of client c's request r waits for its next statement at label l.
Suspend(c, r, l, data) ==
    /\ last' = [req |-> r, resp |-> NoResp, at |-> l]
    /\ wallet' = wallet
    /\ pc' = [pc EXCEPT ![c] = l]
    /\ req' = [req EXCEPT ![c] = r]
    /\ token_data' = [token_data EXCEPT ![c] = data]
    /\ opened' = SessionLocal(opened)
    /\ closed' = closed
    /\ db' = [db EXCEPT ![c] = TRUE]
    /\ UNCHANGED <<BACKEND_CORS_ORIGINS, user_middleware>>

\* ---------------------------------------------------------------- register
\* First statement: the existence query.  TRUE when the handler raises the
\* 400 before touching the table.
register_exists(table, email) == Len(UsersByEmail(table, email)) > 0

\* Variant: register without the except IntegrityError clause, so that the
\* violation reaches the catch-all handler.
register_commit_Uncaught(table, r, t) ==
    IF UsersUniqueViolation(table, r.email)
      THEN [users |-> table, resp |-> general_exception_handler]
      ELSE [users |-> Append(table, User(r.email, r.name,
                                         get_password_hash(r.password), t)),
            resp  |-> TokenPair(201,
                        create_access_token([sub |-> r.email],
                                            ACCESS_TOKEN_EXPIRE_MINUTES * 60, t),
                        create_refresh_token([sub |-> r.email], t))]

\* db.add(user); db.commit(); db.refresh(user) and the token pair, or the
\* IntegrityError branch: rollback and the same 400.
register_commit(table, r, t) ==
    IF UsersUniqueViolation(table, r.email)
      THEN [users |-> table,
            resp  |-> HTTPException(400, "Email already registered", FALSE)]
      ELSE [users |-> Append(table, User(r.email, r.name,
                                         get_password_hash(r.password), t)),
            resp  |-> TokenPair(201,
                        create_access_token([sub |-> r.email],
                                            ACCESS_TOKEN_EXPIRE_MINUTES * 60, t),
                        create_refresh_token([sub |-> r.email], t))]

Register(c, email, name, password) ==
    LET r == [NoReq EXCEPT !.op = "register", !.email = email,
                           !.name = name, !.password = password] IN
    /\ Begin(c)
    /\ IF register_exists(users, email)
         THEN Reply(c, r, HTTPException(400, "Email already registered", FALSE))
         ELSE Suspend(c, r, "register_commit", NoSub)
    /\ UNCHANGED <<users, blacklist, now, nticks>>

RegisterCommit(c) ==
    /\ pc[c] = "register_commit"
    /\ users' = register_commit(users, req[c], now).users
    /\ Reply(c, req[c], register_commit(users, req[c], now).resp)
    /\ UNCHANGED <<blacklist, now, nticks, nreq>>

\* ------------------------------------------------------------------- login
\* Variant: login without the is_active check.
login_NoActiveCheck(table, username, password, t) ==
    LET found == UsersByEmail(table, username) IN
    IF Len(found) = 0 \/ ~verify_password(password, found[1].hashed_password)
      THEN HTTPException(401, "Incorrect email or password", TRUE)
    ELSE TokenPair(200,
           create_access_token([sub |-> found[1].email],
                               ACCESS_TOKEN_EXPIRE_MINUTES * 60, t),
           create_refresh_token([sub |-> found[1].email], t))

\* Variant: login that reports an unknown email with its own message.
login_UnknownEmailMessage(table, username, password, t) ==
    LET found == UsersByEmail(table, username) IN
    IF Len(found) = 0
      THEN HTTPException(401, "User not found", TRUE)
    ELSE IF ~verify_password(password, found[1].hashed_password)
      THEN HTTPException(401, "Incorrect email or password", TRUE)
    ELSE IF ~found[1].is_active
      THEN HTTPException(401, "Account is disabled", FALSE)
    ELSE TokenPair(200,
           create_access_token([sub |-> found[1].email],
                               ACCESS_TOKEN_EXPIRE_MINUTES * 60, t),
           create_refresh_token([sub |-> found[1].email], t))

\* Variant: login that tests is_active before the password.
login_ActiveFirst(table, username, password, t) ==
    LET found == UsersByEmail(table, username) IN
    IF Len(found) = 0
      THEN HTTPException(401, "Incorrect email or password", TRUE)
    ELSE IF ~found[1].is_active
      THEN HTTPException(401, "Account is disabled", FALSE)
    ELSE IF ~verify_password(password, found[1].hashed_password)
      THEN HTTPException(401, "Incorrect email or password", TRUE)
    ELSE TokenPair(200,
           create_access_token([sub |-> found[1].email],
                               ACCESS_TOKEN_EXPIRE_MINUTES * 60, t),
           create_refresh_token([sub |-> found[1].email], t))

login(table, username, password, t) ==
    LET found == UsersByEmail(table, username) IN
    IF Len(found) = 0 \/ ~verify_password(password, found[1].hashed_password)
      THEN HTTPException(401, "Incorrect email or password", TRUE)
    ELSE IF ~found[1].is_active
      THEN HTTPException(401, "Account is disabled", FALSE)
    ELSE TokenPair(200,
           create_access_token([sub |-> found[1].email],
                               ACCESS_TOKEN_EXPIRE_MINUTES * 60, t),
           create_refresh_token([sub |-> found[1].email], t))

Login(c, username, password) ==
    /\ Begin(c)
    /\ Reply(c, [NoReq EXCEPT !.op = "login", !.email = username,
                              !.password = password],
             login(users, username, password, now))
    /\ UNCHANGED <<users, blacklist, now, nticks>>

\* ----------------------------------------------------------------- refresh
\* Variant: refresh that also issues a new refresh token.
refresh_token_Rotating(table, token, t) ==
    LET data  == verify_token(token, "refresh", t)
        found == UsersByEmail(table, data.email) IN
    IF ~data.ok THEN HTTPException(data.status_code, data.message, FALSE)
    ELSE IF Len(found) = 0 THEN HTTPException(401, "User not found", FALSE)
    ELSE IF ~found[1].is_active
      THEN HTTPException(401, "User account is disabled", FALSE)
    ELSE TokenPair(200,
           create_access_token([sub |-> found[1].email],
                               ACCESS_TOKEN_EXPIRE_MINUTES * 60, t),
           create_refresh_token([sub |-> found[1].email], t))

refresh_token(table, token, t) ==
    LET data  == verify_token(token, "refresh", t)
        found == UsersByEmail(table, data.email) IN
    IF ~data.ok THEN HTTPException(data.status_code, data.message, FALSE)
    ELSE IF Len(found) = 0 THEN HTTPException(401, "User not found", FALSE)
    ELSE IF ~found[1].is_active
      THEN HTTPException(401, "User account is disabled", FALSE)
    ELSE TokenPair(200,
           create_access_token([sub |-> found[1].email],
                               ACCESS_TOKEN_EXPIRE_MINUTES * 60, t),
           NoToken)

Refresh(c, token) ==
    /\ Begin(c)
    /\ Reply(c, [NoReq EXCEPT !.op = "refresh", !.token = token],
             refresh_token(users, token, now))
    /\ UNCHANGED <<users, blacklist, now, nticks>>

\* ------------------------------------------------------------------ logout
\* verify_token, then INSERT and commit.  AuthError is swallowed; the
\* IntegrityError of the UNIQUE (token) constraint is not caught by the
\* handler and reaches the application's catch-all handler.
\* Variant: logout that blacklists the token whether or not it verifies.
logout_NoVerify(table, token, t) ==
    IF BlacklistUniqueViolation(table, token)
      THEN [blacklist |-> table, resp |-> general_exception_handler]
      ELSE [blacklist |-> Append(table, BlacklistedToken(token, t)),
            resp      |-> Message("Successfully logged out")]

\* Variant: logout that keeps only the row it inserts.
logout_Purging(table, token, t) ==
    IF ~verify_token(token, "access", t).ok
      THEN [blacklist |-> table, resp |-> Message("Successfully logged out")]
    ELSE IF BlacklistUniqueViolation(table, token)
      THEN [blacklist |-> table, resp |-> general_exception_handler]
    ELSE [blacklist |-> <<BlacklistedToken(token, t)>>,
          resp      |-> Message("Successfully logged out")]

logout(table, token, t) ==
    IF ~verify_token(token, "access", t).ok
      THEN [blacklist |-> table, resp |-> Message("Successfully logged out")]
    ELSE IF BlacklistUniqueViolation(table, token)
      THEN [blacklist |-> table, resp |-> general_exception_handler]
    ELSE [blacklist |-> Append(table, BlacklistedToken(token, t)),
          resp      |-> Message("Successfully logged out")]

Logout(c, token) ==
    /\ Begin(c)
    /\ blacklist' = logout(blacklist, token, now).blacklist
    /\ Reply(c, [NoReq EXCEPT !.op = "logout", !.token = token],
             logout(blacklist, token, now).resp)
    /\ UNCHANGED <<users, now, nticks>>

\* -------------------------------------------------------- get_current_user
\* Variant: get_current_user without the blacklist query.
current_user_token_NoBlacklist(table, token, t) == verify_token(token, "access", t)

\* Variant: get_current_user that verifies the token before it queries the
\* blacklist.
current_user_token_VerifyFirst(table, token, t) ==
    IF ~verify_token(token, "access", t).ok
      THEN verify_token(token, "access", t)
    ELSE IF Len(BlacklistedRows(table, token)) > 0
      THEN AuthError("Token has been revoked")
    ELSE verify_token(token, "access", t)

\* First statement: the blacklist query, then verify_token.
current_user_token(table, token, t) ==
    IF Len(BlacklistedRows(table, token)) > 0
      THEN AuthError("Token has been revoked")
      ELSE verify_token(token, "access", t)

\* Variant: the account lookup without its filter on the email.
current_user_account_NoFilter(table, email) ==
    IF Len(table) = 0 THEN [ok |-> FALSE, message |-> "User not found", user |-> NoUser]
    ELSE IF ~table[1].is_active
      THEN [ok |-> FALSE, message |-> "User account is disabled", user |-> NoUser]
    ELSE [ok |-> TRUE, message |-> "", user |-> table[1]]

\* Second statement: the account lookup by the token's subject.
current_user_account(table, email) ==
    LET found == UsersByEmail(table, email) IN
    IF Len(found) = 0 THEN [ok |-> FALSE, message |-> "User not found", user |-> NoUser]
    ELSE IF ~found[1].is_active
      THEN [ok |-> FALSE, message |-> "User account is disabled", user |-> NoUser]
    ELSE [ok |-> TRUE, message |-> "", user |-> found[1]]

\* /auth/me and /auth/verify-token: both depend on get_current_user.
Protected(c, route, token) ==
    LET r    == [NoReq EXCEPT !.op = route, !.token = token]
        data == current_user_token(blacklist, token, now) IN
    /\ Begin(c)
    /\ IF ~data.ok
         THEN Reply(c, r, HTTPException(data.status_code, data.message, TRUE))
         ELSE Suspend(c, r, "current_user_account", data.email)
    /\ UNCHANGED <<users, blacklist, now, nticks>>

ProtectedAccount(c) ==
    /\ pc[c] = "current_user_account"
    /\ LET found == current_user_account(users, token_data[c]) IN
       Reply(c, req[c],
             IF ~found.ok THEN HTTPException(401, found.message, TRUE)
             ELSE IF req[c].op = "me" THEN UserResponse(found.user)
             ELSE Message("Token is valid"))
    /\ UNCHANGED <<users, blacklist, now, nticks, nreq>>

\* ------------------------------------------------------------- environment
\* An operator sets users.is_active to false for an account (no route does).
DisableAccount(email) ==
    /\ \E i \in DOMAIN users : users[i].email = email /\ users[i].is_active
    /\ users' = [i \in DOMAIN users |->
                   IF users[i].email = email
                     THEN [users[i] EXCEPT !.is_active = FALSE] ELSE users[i]]
    /\ UNCHANGED <<blacklist, now, nticks, nreq, pc, req, token_data, wallet, last,
                   opened, closed, db, BACKEND_CORS_ORIGINS, user_middleware>>

Tick(d) ==
    /\ nticks < MaxTicks
    /\ nticks' = nticks + 1
    /\ now' = now + d
    /\ UNCHANGED <<users, blacklist, nreq, pc, req, token_data, wallet, last,
                   opened, closed, db, BACKEND_CORS_ORIGINS, user_middleware>>

Next ==
    \/ \E c \in Clients, e \in Emails, n \in Names, p \in RegisterPasswords : Register(c, e, n, p)
    \/ \E c \in Clients : RegisterCommit(c)
    \/ \E c \in Clients, e \in Emails, p \in Passwords : Login(c, e, p)
    \/ \E c \in Clients, t \in KnownTokens : Refresh(c, t)
    \/ \E c \in Clients, t \in KnownTokens : Logout(c, t)
    \/ \E c \in Clients, r \in {"me", "verify-token"}, t \in KnownTokens : Protected(c, r, t)
    \/ \E c \in Clients : ProtectedAccount(c)
    \/ \E e \in Emails : DisableAccount(e)
    \/ \E d \in ClockSteps : Tick(d)

Spec == Init /\ [][Next]_vars

\* ------------------------------------------------------------ application
\* The module app.main being imported under a given environment: Settings()
\* has read BACKEND_CORS_ORIGINS, no middleware is registered yet, and no
\* request is served.
InitApp ==
    /\ users = <<>>
    /\ blacklist = <<>>
    /\ now = 0
    /\ nticks = 0
    /\ nreq = 0
    /\ pc = [c \in Clients |-> "idle"]
    /\ req = [c \in Clients |-> NoReq]
    /\ token_data = [c \in Clients |-> NoSub]
    /\ wallet = {}
    /\ last = [req |-> NoReq, resp |-> NoResp, at |-> "none"]
    /\ opened = 0
    /\ closed = 0
    /\ db = [c \in Clients |-> FALSE]
    /\ BACKEND_CORS_ORIGINS \in Strings
    /\ user_middleware = <<>>

\* app.add_middleware(CORSMiddleware, allow_origins=..., ...)
add_middleware ==
    /\ user_middleware = <<>>
    /\ user_middleware' = <<CORSMiddleware(allow_origins(BACKEND_CORS_ORIGINS))>>
    /\ UNCHANGED <<users, blacklist, now, nticks, nreq, pc, req, token_data,
                   wallet, last, opened, closed, db, BACKEND_CORS_ORIGINS>>

NextApp == add_middleware

SpecApp == InitApp /\ [][NextApp]_vars

\* ==================================================================== steps
\* A request is sent in this step: it is last'.req.
Begun == nreq' = nreq + 1

\* A handler returns in this step: the exchange is last'.
Completed ==
    /\ last'.resp # NoResp
    /\ Begun \/ \E c \in Clients : pc[c] # "idle" /\ pc'[c] = "idle"

ProtectedRoutes == {"me", "verify-token"}

Revoked(table, token) == \E i \in DOMAIN table : table[i].token = token

\* ------------------------------------------------------------------- C1
\* C1: once a logout was called with an access token that verifies, that
\* token is on the blacklist, it stays on the blacklist through every later
\* step, and every /auth/me or /auth/verify-token request sent while it is on
\* the blacklist is answered at once with 401 "Token has been revoked"
\* (WWW-Authenticate: Bearer), whether or not the token has expired.
C1_RevokedTokenRejected ==
    [][ /\ (Begun /\ last'.req.op = "logout"
              /\ JwtDecodeError(last'.req.token, now) = ""
              /\ last'.req.token.type = "access"
              /\ last'.req.token.sub # NoSub)
           => Revoked(blacklist', last'.req.token)
        /\ \A i \in DOMAIN blacklist : Revoked(blacklist', blacklist[i].token)
        /\ (Begun /\ last'.req.op \in ProtectedRoutes
              /\ Revoked(blacklist, last'.req.token))
           => last'.resp = HTTPException(401, "Token has been revoked", TRUE)
      ]_vars

\* A revoked token whose expiry has not elapsed was just rejected by /auth/me.
C1_Witness ==
    /\ last.req.op = "me"
    /\ last.resp = HTTPException(401, "Token has been revoked", TRUE)
    /\ last.req.token.sig = "ok"
    /\ last.req.token.exp >= now
    /\ Revoked(blacklist, last.req.token)

\* ------------------------------------------------------------------- C2
\* C2: every logout, whatever token it carries and however often it is
\* repeated, is answered with the success message.
C2_LogoutNeverFails ==
    (last.req.op = "logout" /\ last.resp # NoResp)
        => last.resp = Message("Successfully logged out")

\* ------------------------------------------------------------------- C3
Conflict == HTTPException(400, "Email already registered", FALSE)

\* C3: no email ever has more than one row in users; a register request for
\* an email that already has a row is answered 400 "Email already
\* registered" and leaves the table as it was; and once a register request
\* for an email has been answered, exactly one row holds that email.
C3_EmailUnique ==
    [][ /\ \A e \in Emails : Len(UsersByEmail(users', e)) <= 1
        /\ (Completed /\ last'.req.op = "register"
              /\ Len(UsersByEmail(users, last'.req.email)) > 0)
           => (last'.resp = Conflict /\ users' = users)
        /\ (Begun /\ last'.req.op = "register"
              /\ Len(UsersByEmail(users, last'.req.email)) > 0)
           => Completed
        /\ (Completed /\ last'.req.op = "register")
           => Len(UsersByEmail(users', last'.req.email)) = 1
      ]_vars

\* A second register for a registered email was refused at the existence
\* check; the first one's row is the only one.
C3_Witness ==
    /\ last.req.op = "register"
    /\ last.at = "register"
    /\ last.resp = Conflict
    /\ Len(UsersByEmail(users, last.req.email)) = 1

\* ------------------------------------------------------------------- C4
\* C4: a register handler that has passed the existence check and reaches its
\* commit either finds no row for its email, inserts exactly one active row
\* and answers 201, or finds the row a concurrent register committed in the
\* meantime, leaves the table unchanged and answers the same 400 "Email
\* already registered" (never a 500).  Of two handlers racing on one email
\* the first to commit therefore wins and the second is refused.
C4_RegisterRace ==
    [][ \A c \in Clients :
          (pc[c] = "register_commit" /\ pc'[c] = "idle") =>
            /\ last'.req = req[c]
            /\ IF \E i \in DOMAIN users : users[i].email = req[c].email
                 THEN last'.resp = Conflict /\ users' = users
                 ELSE /\ last'.resp.status = 201
                      /\ Len(users') = Len(users) + 1
                      /\ SubSeq(users', 1, Len(users)) = users
                      /\ users'[Len(users')].email = req[c].email
      ]_vars

\* The loser of a race was just refused at its commit: the winner's row is
\* the only one for the email.
C4_Witness ==
    /\ last.req.op = "register"
    /\ last.at = "register_commit"
    /\ last.resp = Conflict
    /\ Len(UsersByEmail(users, last.req.email)) = 1

\* ------------------------------------------------------------------- C5
\* C5: verify_token never accepts a token whose type claim differs from the
\* expected type: this holds of every token a request carries (issued or
\* forged, whatever its signature) when it is presented, and of every token a
\* response carries when it is issued; a protected route sent a token that is
\* not of type access, and a refresh sent a token that is not of type
\* refresh, are answered 401 at once.
C5_TypeConfusionRejected ==
    [][ /\ \A t \in {last'.req.token, last'.resp.body.access_token,
                     last'.resp.body.refresh_token} \ {NoToken},
              expected \in {"access", "refresh"} :
             t.type # expected =>
               /\ ~verify_token(t, expected, now').ok
               /\ verify_token(t, expected, now').status_code = 401
        /\ (Begun /\ last'.req.op \in ProtectedRoutes
              /\ last'.req.token.type # "access")
           => (last'.resp.status = 401 /\ last'.resp.body = NoBody)
        /\ (Begun /\ last'.req.op = "refresh"
              /\ last'.req.token.type # "refresh")
           => (last'.resp.status = 401 /\ last'.resp.body = NoBody)
      ]_vars

\* A validly signed, unexpired access token of an active account was just
\* refused by refresh.
C5_Witness ==
    /\ last.req.op = "refresh"
    /\ last.req.token.type = "access"
    /\ last.req.token.sig = "ok"
    /\ last.req.token.exp >= now
    /\ \E i \in DOMAIN users :
         users[i].email = last.req.token.sub /\ users[i].is_active
    /\ last.resp.status = 401

\* ------------------------------------------------------------------- C6
\* The account a request is about: the login's email, or the subject of the
\* token a refresh or a protected route carries.
Subject(r) == IF r.op = "login" THEN r.email ELSE r.token.sub

Disabled(table, email) ==
    \E i \in DOMAIN table : table[i].email = email /\ ~table[i].is_active

\* C6: a disabled account stays disabled, and every login, refresh, /auth/me
\* and /auth/verify-token answered for a disabled account is a 401 that
\* carries no token and no profile.  When the credential is otherwise valid
\* the 401 says the account is disabled: "Account is disabled" for a login
\* with the right password, "User account is disabled" for a refresh token
\* that verifies and for a protected route whose token passed the blacklist
\* and verification checks (even one issued before the account was disabled).
C6_DisabledAccountRejected ==
    [][ /\ \A e \in Emails : Disabled(users, e) => Disabled(users', e)
        /\ (Completed /\ last'.req.op \in {"login", "refresh"} \cup ProtectedRoutes
              /\ Disabled(users, Subject(last'.req))) =>
             /\ last'.resp.status = 401
             /\ last'.resp.body = NoBody
             /\ (last'.req.op = "login"
                   /\ \E i \in DOMAIN users :
                        /\ users[i].email = last'.req.email
                        /\ users[i].hashed_password
                             = get_password_hash(last'.req.password))
                => last'.resp.detail = "Account is disabled"
             /\ (last'.req.op = "refresh"
                   /\ last'.req.token.sig = "ok"
                   /\ last'.req.token.exp >= now
                   /\ last'.req.token.type = "refresh")
                => last'.resp.detail = "User account is disabled"
             /\ (last'.req.op \in ProtectedRoutes
                   /\ last'.at = "current_user_account")
                => (last'.resp.detail = "User account is disabled"
                      /\ last'.resp.www_authenticate)
        /\ (Begun /\ last'.req.op \in ProtectedRoutes
              /\ last'.req.token.sig = "ok"
              /\ last'.req.token.exp >= now
              /\ last'.req.token.type = "access"
              /\ last'.req.token.sub # NoSub
              /\ ~Revoked(blacklist, last'.req.token))
           => (last'.resp = NoResp /\ last'.at = "current_user_account")
      ]_vars

\* /auth/me with an unexpired, unrevoked access token of a disabled account
\* was just refused.
C6_Witness ==
    /\ last.req.op = "me"
    /\ last.resp = HTTPException(401, "User account is disabled", TRUE)
    /\ last.req.token.exp >= now
    /\ ~Revoked(blacklist, last.req.token)
    /\ Disabled(users, last.req.token.sub)

\* ------------------------------------------------------------------- C7
BadCredentials == HTTPException(401, "Incorrect email or password", TRUE)

\* C7: a login with the right password for an active account is answered 200
\* with an access and a refresh token for that email; a login with a wrong
\* password for an existing account and a login for an email that has no
\* account are answered with one and the same response, 401 "Incorrect email
\* or password" with WWW-Authenticate: Bearer.
C7_LoginResponses ==
    [][ (Completed /\ last'.req.op = "login") =>
          LET found == UsersByEmail(users, last'.req.email) IN
          /\ Len(found) = 0 => last'.resp = BadCredentials
          /\ (Len(found) > 0
                /\ found[1].hashed_password # get_password_hash(last'.req.password))
             => last'.resp = BadCredentials
          /\ (Len(found) > 0
                /\ found[1].hashed_password = get_password_hash(last'.req.password)
                /\ found[1].is_active)
             => /\ last'.resp.status = 200
                /\ last'.resp.body.access_token.type = "access"
                /\ last'.resp.body.access_token.sub = last'.req.email
                /\ last'.resp.body.access_token.sig = "ok"
                /\ last'.resp.body.refresh_token.type = "refresh"
                /\ last'.resp.body.refresh_token.sub = last'.req.email
                /\ last'.resp.body.refresh_token.sig = "ok"
      ]_vars

\* A login with the wrong password for a registered, active account was just
\* refused with the generic response.
C7_Witness ==
    /\ last.req.op = "login"
    /\ last.resp = BadCredentials
    /\ \E i \in DOMAIN users :
         /\ users[i].email = last.req.email
         /\ users[i].is_active
         /\ users[i].hashed_password # get_password_hash(last.req.password)

\* ------------------------------------------------------------------- C8
\* C8: an access token issued by register or login that is unexpired and not
\* blacklisted when /auth/me receives it reaches the account lookup with the
\* token's subject; when that account is active the answer is 200 with the
\* profile of the one row whose email is the token's subject; and /auth/me
\* never answers 200 with any other account.
C8_TokenResolvesToItsAccount ==
    [][ /\ (Begun /\ last'.req.op = "me"
              /\ last'.req.token \in wallet
              /\ last'.req.token.type = "access"
              /\ last'.req.token.exp >= now
              /\ ~Revoked(blacklist, last'.req.token))
           => \E c \in Clients :
                /\ pc[c] = "idle" /\ pc'[c] = "current_user_account"
                /\ token_data'[c] = last'.req.token.sub
        /\ (Completed /\ last'.req.op = "me" /\ last'.at = "current_user_account"
              /\ \E i \in DOMAIN users :
                   users[i].email = last'.req.token.sub /\ users[i].is_active)
           => last'.resp.status = 200
        /\ (Completed /\ last'.req.op = "me" /\ last'.resp.status = 200)
           => /\ last'.resp.body.user.email = last'.req.token.sub
              /\ \E i \in DOMAIN users :
                   /\ users[i].email = last'.req.token.sub
                   /\ last'.resp = UserResponse(users[i])
      ]_vars

\* With two accounts registered, /auth/me just returned the second one for
\* the token issued to it.
C8_Witness ==
    /\ last.req.op = "me"
    /\ last.resp.status = 200
    /\ last.req.token \in wallet
    /\ Len(users) = 2
    /\ last.resp.body.user.email = users[2].email
    /\ last.req.token.sub = users[2].email

\* ------------------------------------------------------------------- C9
\* C9: a refresh with an unexpired, validly signed refresh token of an
\* existing active account is answered 200 with a new access token whose
\* subject is the account's email and with no refresh token; a refresh with
\* a token of type access is answered 401.
C9_Refresh ==
    [][ (Completed /\ last'.req.op = "refresh") =>
          /\ (last'.req.token.sig = "ok"
                /\ last'.req.token.exp >= now
                /\ last'.req.token.type = "refresh"
                /\ \E i \in DOMAIN users :
                     users[i].email = last'.req.token.sub /\ users[i].is_active)
             => /\ last'.resp.status = 200
                /\ last'.resp.body.access_token.type = "access"
                /\ last'.resp.body.access_token.sub = last'.req.token.sub
                /\ last'.resp.body.access_token.sig = "ok"
                /\ last'.resp.body.access_token.exp >= now
                /\ last'.resp.body.refresh_token = NoToken
          /\ last'.req.token.type = "access"
             => (last'.resp.status = 401 /\ last'.resp.body = NoBody)
      ]_vars

\* A refresh with the refresh token issued at registration just returned a
\* new access token for the account.
C9_Witness ==
    /\ last.req.op = "refresh"
    /\ last.resp.status = 200
    /\ \E i \in DOMAIN users :
         /\ users[i].email = last.req.token.sub
         /\ last.req.token.iat = users[i].created_at
    /\ last.resp.body.access_token.sub = last.req.token.sub
    /\ last.resp.body.refresh_token = NoToken

\* ------------------------------------------------------------------ C10
\* C10: a register request for an email that has no row passes the existence
\* check; a register handler that commits while the email has no row answers
\* 201 with an access and a refresh token whose subject is that email, the
\* bearer token type and expires_in, and the table then holds exactly one row
\* for the email, with is_active true and the hash of the password.
C10_RegisterNewEmail ==
    [][ /\ (Begun /\ last'.req.op = "register"
              /\ Len(UsersByEmail(users, last'.req.email)) = 0)
           => (last'.resp = NoResp /\ last'.at = "register_commit")
        /\ (Completed /\ last'.req.op = "register"
              /\ Len(UsersByEmail(users, last'.req.email)) = 0)
           => /\ last'.resp.status = 201
              /\ last'.resp.body.access_token.type = "access"
              /\ last'.resp.body.access_token.sub = last'.req.email
              /\ last'.resp.body.refresh_token.type = "refresh"
              /\ last'.resp.body.refresh_token.sub = last'.req.email
              /\ last'.resp.body.token_type = "bearer"
              /\ Len(UsersByEmail(users', last'.req.email)) = 1
              /\ UsersByEmail(users', last'.req.email)[1].is_active
              /\ UsersByEmail(users', last'.req.email)[1].hashed_password
                   = get_password_hash(last'.req.password)
      ]_vars

\* A registration just succeeded and its account is active.
C10_Witness ==
    /\ last.req.op = "register"
    /\ last.resp.status = 201
    /\ last.resp.body.access_token # NoToken
    /\ last.resp.body.refresh_token # NoToken
    /\ \E i \in DOMAIN users : users[i].email = last.req.email /\ users[i].is_active

\* ------------------------------------------------------------------ C11
\* C11: in every reachable state no two rows of the blacklist hold the same
\* token string.
C11_BlacklistTokenOnce ==
    \A i, j \in DOMAIN blacklist :
        blacklist[i].token = blacklist[j].token => i = j

\* A logout was just repeated with a token already on the blacklist, which
\* holds it once.
C11_Witness ==
    /\ last.req.op = "logout"
    /\ last.resp = general_exception_handler
    /\ Len(BlacklistedRows(blacklist, last.req.token)) = 1

\* ------------------------------------------------------------------ C12
\* A handler runs a statement in this step for the request last'.req.
HandlerStep == Begun \/ \E c \in Clients : pc[c] # "idle" /\ pc'[c] = "idle"

\* The token is validly signed, of type access, with a subject, and unexpired
\* at time t.
ValidAccess(token, t) ==
    /\ token.sig = "ok"
    /\ token.type = "access"
    /\ token.sub # NoSub
    /\ token.exp >= t

\* C12: a logout whose token verifies as an access token leaves the token on
\* the blacklist, appending one row for it unless a row already holds it; a
\* logout whose token fails verification leaves the blacklist unchanged; no
\* logout changes the users table; only a logout changes the blacklist; and
\* every row of the blacklist holds a validly signed access token with a
\* subject that was unexpired when the row was inserted.
C12_LogoutBlacklistsVerifiedOnly ==
    [][ /\ (Begun /\ last'.req.op = "logout") =>
             /\ users' = users
             /\ IF ValidAccess(last'.req.token, now)
                  THEN /\ Revoked(blacklist', last'.req.token)
                       /\ IF Revoked(blacklist, last'.req.token)
                            THEN blacklist' = blacklist
                            ELSE blacklist' = Append(blacklist,
                                   [token |-> last'.req.token,
                                    blacklisted_at |-> now])
                  ELSE blacklist' = blacklist
        /\ blacklist' # blacklist => (Begun /\ last'.req.op = "logout")
        /\ \A i \in DOMAIN blacklist' :
             ValidAccess(blacklist'[i].token, blacklist'[i].blacklisted_at)
      ]_vars

\* A logout with an expired token was just answered with the success message
\* and the token is not on the blacklist, which holds another token.
C12_Witness ==
    /\ last.req.op = "logout"
    /\ last.req.token.sig = "ok"
    /\ last.req.token.exp < now
    /\ last.resp = Message("Successfully logged out")
    /\ ~Revoked(blacklist, last.req.token)
    /\ Len(blacklist) > 0

\* ------------------------------------------------------------------ C13
Unauthorized(detail) == HTTPException(401, detail, TRUE)

\* C13: a protected route sent a blacklisted token answers 401 "Token has been
\* revoked" even when the token no longer verifies; sent a token that is not
\* blacklisted and fails verification it answers 401 with the verification
\* failure; otherwise it goes on to the account lookup, which answers 401
\* "User not found" when no row has the token's subject, 401 "User account is
\* disabled" when the row is inactive, and 200 otherwise.  Every answer other
\* than 200 is a 401 with WWW-Authenticate: Bearer, and a 200 is given only
\* for a token that verified and an account that exists and is active.
C13_ResolutionOrder ==
    [][ /\ (Begun /\ last'.req.op \in ProtectedRoutes) =>
             IF Revoked(blacklist, last'.req.token)
               THEN last'.resp = Unauthorized("Token has been revoked")
             ELSE IF ~ValidAccess(last'.req.token, now)
               THEN /\ last'.resp.status = 401
                    /\ last'.resp.www_authenticate
                    /\ last'.resp.body = NoBody
                    /\ last'.resp.detail
                         \notin {"", "Token has been revoked", "User not found",
                                 "User account is disabled"}
             ELSE last'.resp = NoResp /\ last'.at = "current_user_account"
        /\ (Completed /\ last'.req.op \in ProtectedRoutes
              /\ last'.at = "current_user_account") =>
             LET found == UsersByEmail(users, last'.req.token.sub) IN
             IF Len(found) = 0
               THEN last'.resp = Unauthorized("User not found")
             ELSE IF ~found[1].is_active
               THEN last'.resp = Unauthorized("User account is disabled")
             ELSE /\ last'.resp.status = 200
                  /\ last'.req.op = "me" => last'.resp = UserResponse(found[1])
                  /\ ValidAccess(last'.req.token, last'.req.token.exp)
        /\ (Completed /\ last'.req.op \in ProtectedRoutes
              /\ last'.resp.status # 200)
           => (last'.resp.status = 401 /\ last'.resp.www_authenticate)
        /\ (Completed /\ last'.req.op \in ProtectedRoutes
              /\ last'.resp.status = 200)
           => last'.at = "current_user_account"
      ]_vars

\* A token that is on the blacklist and has since expired was just rejected
\* as revoked.
C13_Witness ==
    /\ last.req.op \in ProtectedRoutes
    /\ last.resp = Unauthorized("Token has been revoked")
    /\ last.req.token.sig = "ok"
    /\ last.req.token.exp < now

\* A verifiable token whose subject has no account was just rejected.
C13_WitnessUnknownSubject ==
    /\ last.req.op \in ProtectedRoutes
    /\ last.resp = Unauthorized("User not found")

\* ------------------------------------------------------------------ C14
\* The requests whose handler has not returned yet.
InFlight == {c \in Clients : pc[c] # "idle"}

\* C14: every request opened one session of its own; exactly the requests in
\* flight hold a session; and there has been one close() for every finished
\* request and none for a request in flight, whether the handler returned,
\* raised an HTTPException or failed on commit.
C14_SessionClosedOnce ==
    /\ opened = nreq
    /\ \A c \in Clients : db[c] <=> c \in InFlight
    /\ closed = opened - Cardinality(InFlight)

\* A logout has just failed on commit, after two requests that returned.
C14_Witness ==
    /\ last.resp = general_exception_handler
    /\ opened = 3
    /\ closed = 3

\* ------------------------------------------------------------------ C15
Expired(token, t) == token.exp < t

\* C15: the access token of a register, login or refresh response and a
\* token made with the default lifetime expire ACCESS_TOKEN_EXPIRE_MINUTES
\* minutes after the time of issue, a refresh token REFRESH_TOKEN_EXPIRE_DAYS
\* days after it, and expires_in is ACCESS_TOKEN_EXPIRE_MINUTES * 60;
\* verify_token fails with status 401 for a token presented after its exp, so
\* a protected route and refresh answer 401 to it.
C15_Expiry ==
    [][ /\ (Completed /\ last'.req.op \in {"register", "login", "refresh"}
              /\ last'.resp.status \in {200, 201}) =>
             /\ last'.resp.body.access_token.exp = now + 30 * 60
             /\ last'.resp.body.access_token.iat = now
             /\ last'.resp.body.expires_in = 30 * 60
             /\ last'.resp.body.expires_in = ACCESS_TOKEN_EXPIRE_MINUTES * 60
             /\ last'.req.op # "refresh" =>
                  /\ last'.resp.body.refresh_token.exp = now + 7 * 24 * 3600
                  /\ last'.resp.body.refresh_token.iat = now
        /\ create_access_token([sub |-> "a@x"], 0, now).exp
             = now + ACCESS_TOKEN_EXPIRE_MINUTES * 60
        /\ create_refresh_token([sub |-> "a@x"], now).exp
             = now + REFRESH_TOKEN_EXPIRE_DAYS * 24 * 3600
        /\ (Begun /\ Expired(last'.req.token, now)) =>
             /\ \A type \in {"access", "refresh"} :
                  /\ ~verify_token(last'.req.token, type, now).ok
                  /\ verify_token(last'.req.token, type, now).status_code = 401
             /\ last'.req.op \in ProtectedRoutes \cup {"refresh"} =>
                  (Completed /\ last'.resp.status = 401)
      ]_vars

\* A refresh token the service issued was presented to refresh after its exp
\* and rejected for that.
C15_Witness ==
    /\ last.req.op = "refresh"
    /\ last.req.token.type = "refresh"
    /\ last.req.token.sig = "ok"
    /\ Expired(last.req.token, now)
    /\ last.resp = HTTPException(401, "Token validation failed: Signature has expired.",
                                 FALSE)

\* An access token the service issued was presented to a protected route
\* after its exp, without being blacklisted, and rejected for that.
C15_WitnessAccess ==
    /\ last.req.op \in ProtectedRoutes
    /\ last.req.token.sig = "ok"
    /\ Expired(last.req.token, now)
    /\ last.resp = Unauthorized("Token validation failed: Signature has expired.")


\* ------------------------------------------------------------------ C16
\* C16: once the CORS middleware is registered, its allowed origins are the
\* entries of Settings.CORS_ORIGINS_LIST, that is BACKEND_CORS_ORIGINS split
\* on commas with each entry stripped.
C16_AllowedOriginsAreParsedList ==
    \A i \in DOMAIN user_middleware :
        user_middleware[i].allow_origins = CORS_ORIGINS_LIST(BACKEND_CORS_ORIGINS)

\* What the middleware is given instead: one entry per character of the
\* setting, which is the parsed list only for a setting of a single character
\* that is neither a comma nor a blank.
C16_AllowedOriginsAreCharacters ==
    \A i \in DOMAIN user_middleware :
        /\ Len(user_middleware[i].allow_origins) = Len(BACKEND_CORS_ORIGINS)
        /\ \A k \in DOMAIN BACKEND_CORS_ORIGINS :
             user_middleware[i].allow_origins[k] = <<BACKEND_CORS_ORIGINS[k]>>
        /\ (user_middleware[i].allow_origins = CORS_ORIGINS_LIST(BACKEND_CORS_ORIGINS))
             <=> (Len(BACKEND_CORS_ORIGINS) = 1 /\ BACKEND_CORS_ORIGINS[1] \notin {",", " "})

\* The middleware was registered for a setting that names two origins.
C16_TwoOriginsRegistered ==
    /\ user_middleware # <<>>
    /\ CORS_ORIGINS_LIST(BACKEND_CORS_ORIGINS) = << <<"a">>, <<"b">> >>

\* ------------------------------------------------------------------ C17
ValidRefresh(token, t) ==
    /\ token.sig = "ok"
    /\ token.type = "refresh"
    /\ token.sub # NoSub
    /\ token.exp >= t

\* The part of C17 about what refresh and logout look at: no blacklist row
\* holds a refresh token, and refresh answers 200 to every verifiable refresh
\* token of an active account, whatever the blacklist holds.
C17_RefreshIgnoresBlacklist ==
    [][ /\ \A i \in DOMAIN blacklist' : blacklist'[i].token.type = "access"
        /\ (Begun /\ last'.req.op = "refresh"
              /\ ValidRefresh(last'.req.token, now)
              /\ UsersByEmail(users, last'.req.token.sub) # <<>>
              /\ ~Disabled(users, last'.req.token.sub))
           => last'.resp.status = 200
      ]_vars

\* C17: logout revokes only the presented access token, so the access token
\* of every successful refresh is one current-user resolution accepts: it is
\* not on the blacklist and it verifies as an access token.
C17_RefreshedTokenAccepted ==
    [][ (Completed /\ last'.req.op = "refresh" /\ last'.resp.status = 200)
        => current_user_token(blacklist', last'.resp.body.access_token, now').ok
      ]_vars

\* A refresh has just answered 200 with an access token that is on the
\* blacklist: the one revoked by a logout in the same second it was issued.
C17_RefreshedTokenRevoked ==
    /\ last.req.op = "refresh"
    /\ last.resp.status = 200
    /\ Revoked(blacklist, last.resp.body.access_token)

\* ------------------------------------------------------------------ C18
\* The password of a login is the one stored for the email.
PasswordMatches(table, email, password) ==
    \E i \in DOMAIN table :
        /\ table[i].email = email
        /\ verify_password(password, table[i].hashed_password)

\* C18: a login whose password is not the account's is answered exactly as
\* the same login against a table without accounts, whether the account is
\* missing, active or disabled; "Account is disabled" is answered only to a
\* login for a disabled account with its correct password, and always then.
C18_PasswordBeforeActive ==
    [][ (Completed /\ last'.req.op = "login") =>
          /\ ~PasswordMatches(users, last'.req.email, last'.req.password) =>
               /\ last'.resp = login(<<>>, last'.req.email, last'.req.password, now)
               /\ last'.resp.detail = "Incorrect email or password"
               /\ last'.resp.body = NoBody
          /\ last'.resp.detail = "Account is disabled" <=>
               /\ Disabled(users, last'.req.email)
               /\ PasswordMatches(users, last'.req.email, last'.req.password)
      ]_vars

\* A login with a wrong password for a disabled account was just answered
\* with the generic response.
C18_Witness ==
    /\ last.req.op = "login"
    /\ Disabled(users, last.req.email)
    /\ ~PasswordMatches(users, last.req.email, last.req.password)
    /\ last.resp = BadCredentials

\* ------------------------------------------------------------------ C19
\* Table before is the beginning of table after, row for row.
Extends(after, before) ==
    /\ Len(before) <= Len(after)
    /\ \A i \in DOMAIN before : after[i] = before[i]

\* C19: a step of login, refresh, /auth/me or /auth/verify-token changes
\* neither table; a step of register leaves the blacklist alone and keeps
\* every users row as it is; a step of logout leaves the users table alone
\* and keeps every blacklist row.  In every step whatsoever each account row
\* stays in the table under its email and each blacklist row stays as it is.
C19_Frame ==
    [][ /\ (HandlerStep /\ last'.req.op \in {"login", "refresh"} \cup ProtectedRoutes)
           => (users' = users /\ blacklist' = blacklist)
        /\ (HandlerStep /\ last'.req.op = "register")
           => (blacklist' = blacklist /\ Extends(users', users))
        /\ (HandlerStep /\ last'.req.op = "logout")
           => (users' = users /\ Extends(blacklist', blacklist))
        /\ Len(users) <= Len(users')
        /\ \A i \in DOMAIN users :
             /\ users'[i].email = users[i].email
             /\ users'[i].hashed_password = users[i].hashed_password
             /\ users'[i].created_at = users[i].created_at
        /\ Extends(blacklist', blacklist)
      ]_vars

\* A logout has just added a second row to the blacklist, with an account in
\* the users table.
C19_Witness ==
    /\ last.req.op = "logout"
    /\ last.resp = Message("Successfully logged out")
    /\ Len(blacklist) = 2
    /\ Revoked(blacklist, last.req.token)
    /\ Len(users) > 0

====
